---- MODULE Spec2Model ----
(***************************************************************************)
(* flightctl: provisioning of Kubernetes contexts, src/flightctl/context.rs *)
(*                                                                         *)
(* prepare(config, release) checks whether the release's context exists in *)
(* the kubeconfig store and otherwise ensures the auth entry, ensures the  *)
(* cluster entry (querying EKS for endpoint and CA) and creates the        *)
(* context.  Every `?` of the source is a place where the call returns     *)
(* with the error; every call into kubeconfig::, aws::, base64:: and       *)
(* tempfile is one step of the process that runs prepare.                  *)
(***************************************************************************)
EXTENDS Naturals, Integers, Sequences, FiniteSets, TLC

(***************************************************************************)
(* Bounds of the model.                                                    *)
(***************************************************************************)
\* temporary CA files whose removal failed that the file system may hold
MaxLeaked == 1

Procs == {1, 2}

(***************************************************************************)
(* The configuration model (super::config): immutable during provisioning. *)
(***************************************************************************)
Releases ==
    { [name |-> "prod",      context |-> "prod-ctx"],
      [name |-> "staging",   context |-> "stg-ctx"],
      [name |-> "ghost",     context |-> "ghost-ctx"],
      [name |-> "noauth",    context |-> "na-ctx"],
      [name |-> "nocluster", context |-> "nc-ctx"] }

Config ==
    [ contexts |->
        { [name |-> "prod-ctx", auth |-> "admin",  cluster |-> "prod-eks",
           namespace |-> <<"default">>],
          [name |-> "stg-ctx",  auth |-> "admin",  cluster |-> "prod-eks",
           namespace |-> <<>>],
          [name |-> "na-ctx",   auth |-> "nobody", cluster |-> "prod-eks",
           namespace |-> <<>>],
          [name |-> "nc-ctx",   auth |-> "admin",  cluster |-> "lost-eks",
           namespace |-> <<>>] },
      auths |->
        { [name |-> "admin", config |-> [variant |-> "AwsSso"]] },
      clusters |->
        { [name |-> "prod-eks",
           config |-> [variant |-> "Eks", name |-> "prod",
                       region |-> "us-east-1"]] } ]

NoContext == [name |-> "", auth |-> "", cluster |-> "", namespace |-> <<>>]
NoAuth    == [name |-> "", config |-> [variant |-> ""]]
NoCluster == [name |-> "", config |-> [variant |-> "", name |-> "", region |-> ""]]

Found(v)     == [ok |-> TRUE,  value |-> v, missing |-> ""]
NotFound(v, n) == [ok |-> FALSE, value |-> v, missing |-> n]

\* config.find_context(&release): the context named release.context
find_context(config, rel) ==
    IF \E c \in config.contexts : c.name = rel.context
    THEN Found(CHOOSE c \in config.contexts : c.name = rel.context)
    ELSE NotFound(NoContext, rel.context)

\* config.find_auth(context): the auth named context.auth
find_auth(config, ctx) ==
    IF \E a \in config.auths : a.name = ctx.auth
    THEN Found(CHOOSE a \in config.auths : a.name = ctx.auth)
    ELSE NotFound(NoAuth, ctx.auth)

\* config.find_cluster(context): the cluster named context.cluster
find_cluster(config, ctx) ==
    IF \E c \in config.clusters : c.name = ctx.cluster
    THEN Found(CHOOSE c \in config.clusters : c.name = ctx.cluster)
    ELSE NotFound(NoCluster, ctx.cluster)

(***************************************************************************)
(* The kubeconfig store (super::kubeconfig): named context, auth (user)    *)
(* and cluster entries.  A context entry carries its bindings.             *)
(***************************************************************************)
ContextNames == {r.context : r \in Releases}
ClusterNames == {c.cluster : c \in Config.contexts}

context_exists(st, name) == \E e \in st.contexts : e.name = name
auth_exists(st, name)    == name \in st.auths
cluster_exists(st, name) == name \in st.clusters

\* kubeconfig::create_context(name, auth, cluster, namespace), on success
store_create_context(st, a) ==
    [st EXCEPT !.contexts =
        {e \in st.contexts : e.name # a.name} \cup
        {[name |-> a.name, auth |-> a.auth, cluster |-> a.cluster,
          namespace |-> a.namespace]}]

\* kubeconfig::create_auth(name, args), on success
store_create_auth(st, name) == [st EXCEPT !.auths = st.auths \cup {name}]

\* kubeconfig::create_cluster(name, args), on success
store_create_cluster(st, name) == [st EXCEPT !.clusters = st.clusters \cup {name}]

(***************************************************************************)
(* The cloud provider (super::aws) and what it may answer.                 *)
(***************************************************************************)
Endpoints == {"https://a.eks", "https://b.eks"}

\* base64 texts the provider may deliver in eks_cluster.cert
CloudCerts ==
    { <<"Q", "U", "I", "=">>,      \* the bytes 65 66
      <<"Q", "R", "=", "=">>,      \* non-zero trailing bits
      <<"Q", "!", "=", "=">> }     \* a symbol outside the alphabet

NoEksCluster == [endpoint |-> "", cert |-> <<>>]

(***************************************************************************)
(* base64::decode (standard alphabet, padded, canonical).                  *)
(***************************************************************************)
B64Alphabet ==
    << "A","B","C","D","E","F","G","H","I","J","K","L","M","N","O","P",
       "Q","R","S","T","U","V","W","X","Y","Z","a","b","c","d","e","f",
       "g","h","i","j","k","l","m","n","o","p","q","r","s","t","u","v",
       "w","x","y","z","0","1","2","3","4","5","6","7","8","9","+","/" >>

B64Valid(ch) == \E i \in 1..Len(B64Alphabet) : B64Alphabet[i] = ch
B64Val(ch)   == (CHOOSE i \in 1..Len(B64Alphabet) : B64Alphabet[i] = ch) - 1

\* the number of "=" that end the text
B64Pad(s) ==
    IF Len(s) >= 2 /\ s[Len(s)] = "=" /\ s[Len(s) - 1] = "=" THEN 2
    ELSE IF Len(s) >= 1 /\ s[Len(s)] = "=" THEN 1
    ELSE 0

\* the bytes of one group of four symbols, of which the last `pad` are "="
B64Group(g, pad) ==
    LET v1 == B64Val(g[1])
        v2 == B64Val(g[2])
        v3 == IF pad >= 2 THEN 0 ELSE B64Val(g[3])
        v4 == IF pad >= 1 THEN 0 ELSE B64Val(g[4])
        n  == ((v1 * 64 + v2) * 64 + v3) * 64 + v4
        b1 == n \div 65536
        b2 == (n \div 256) % 256
        b3 == n % 256
    IN  IF pad = 2 THEN <<b1>> ELSE IF pad = 1 THEN <<b1, b2>> ELSE <<b1, b2, b3>>

\* the bits of the last symbol that no byte takes are zero
B64Canonical(g, pad) ==
    IF pad = 2 THEN B64Val(g[2]) % 16 = 0
    ELSE IF pad = 1 THEN B64Val(g[3]) % 4 = 0
    ELSE TRUE

RECURSIVE B64Groups(_, _)
B64Groups(s, pad) ==
    IF Len(s) = 0 THEN <<>>
    ELSE IF Len(s) = 4 THEN B64Group(s, pad)
    ELSE B64Group(SubSeq(s, 1, 4), 0) \o B64Groups(SubSeq(s, 5, Len(s)), pad)

\* base64::decode(&eks_cluster.cert): [ok, bytes]
base64_decode(s) ==
    LET pad  == B64Pad(s)
        body == SubSeq(s, 1, Len(s) - pad)
        last == SubSeq(s, Len(s) - 3, Len(s))
    IN  IF Len(s) % 4 # 0 THEN [ok |-> FALSE, bytes |-> <<>>]
        ELSE IF \E i \in 1..Len(body) : ~B64Valid(body[i])
             THEN [ok |-> FALSE, bytes |-> <<>>]
        ELSE IF Len(s) > 0 /\ ~B64Canonical(last, pad)
             THEN [ok |-> FALSE, bytes |-> <<>>]
        ELSE [ok |-> TRUE, bytes |-> B64Groups(s, pad)]

(***************************************************************************)
(* What context.rs passes to its collaborators.                            *)
(***************************************************************************)
\* a bug of prepare: the context is never taken to exist
prepare_skips_never(exists) == FALSE

\* a bug of prepare: the context is always taken to exist
prepare_skips_always(exists) == TRUE

\* prepare, line 11: the context is there, nothing to do
prepare_skips(exists) == exists

\* a bug of ensure_auth: the auth entry is never taken to exist
ensure_auth_skips_never(exists) == FALSE

\* a bug of ensure_auth: the auth entry is always taken to exist
ensure_auth_skips_always(exists) == TRUE

\* ensure_auth, line 34
ensure_auth_skips(exists) == exists

\* a bug of ensure_cluster: the cluster entry is never taken to exist
ensure_cluster_skips_never(exists) == FALSE

\* a bug of ensure_cluster: the cluster entry is always taken to exist
ensure_cluster_skips_always(exists) == TRUE

\* ensure_cluster, line 82
ensure_cluster_skips(exists) == exists

\* ensure_auth, line 32: the auth entry is keyed by the context's name
auth_entry_name(ctx) == ctx.name

\* a bug of ensure_cluster: the cluster entry is looked up per context
cluster_entry_name_per_context(ctx) == ctx.name

\* ensure_cluster, line 80: the cluster entry is keyed by the cluster's name
cluster_entry_name(ctx) == ctx.cluster

\* a bug of create_context: the entry is created under the cluster's name
create_context_args_misnamed(ctx) ==
    [name |-> ctx.cluster, auth |-> ctx.auth, cluster |-> ctx.cluster,
     namespace |-> ctx.namespace]

\* a bug of ensure_auth: the cluster is not resolved before the auth entry
\* is written
ensure_auth_lookups_auth_only(config, ctx) ==
    [auth |-> find_auth(config, ctx), cluster |-> Found(NoCluster)]

\* ensure_auth, lines 37-38: config.find_auth(context)?, then
\* config.find_cluster(context)?, both before create_auth
ensure_auth_lookups(config, ctx) ==
    [auth |-> find_auth(config, ctx), cluster |-> find_cluster(config, ctx)]

\* create_context, lines 23-28: kubeconfig::create_context(name, auth, cluster, namespace)
create_context_args(ctx) ==
    [name |-> ctx.name, auth |-> ctx.auth, cluster |-> ctx.cluster,
     namespace |-> ctx.namespace]

\* create_auth, lines 44-76: AwsSso auth with an Eks cluster, the one pairing
create_auth_args(ctx, a, cl) ==
    [name |-> ctx.name,
     args |-> << "--exec-api-version", "client.authentication.k8s.io/v1alpha1",
                 "--exec-arg", "--region",
                 "--exec-arg", cl.config.region,
                 "--exec-arg", "eks",
                 "--exec-arg", "get-token",
                 "--exec-arg", "--cluster-name",
                 "--exec-arg", cl.config.name,
                 "--exec-command", "aws",
                 "--exec-env", "AWS_PROFILE=" \o a.name >>]

\* create_cluster, line 98: aws::get_eks_cluster(&auth.name, region, name)
get_eks_cluster_args(cl, a) ==
    [profile |-> a.name, region |-> cl.config.region, name |-> cl.config.name]

\* create_cluster, lines 108-117: kubeconfig::create_cluster(&cluster.name, ...)
create_cluster_args(cl, eks, ca_path_name) ==
    [name |-> cl.name,
     args |-> << "--embed-certs", "--server", eks.endpoint,
                 "--certificate-authority", ca_path_name >>]

\* create_cluster, line 101: ca_file.write(&ca_pem) wrote the first n bytes;
\* the count it returns is not looked at
file_write(buf, n) == SubSeq(buf, 1, n)

\* the path of the temporary file of process p (NamedTempFile::new)
ca_path_name(p) == "/tmp/.tmp" \o ToString(p)

(***************************************************************************)
(* State.                                                                  *)
(***************************************************************************)
VARIABLES
    store,        \* the kubeconfig store: [contexts, auths, clusters]
    leaked,       \* temporary CA files left behind by calls that returned
    pc,           \* where each process is in prepare
    release,      \* the release of the process's prepare call
    context,      \* prepare: context
    auth,         \* ensure_auth / ensure_cluster: auth
    cluster,      \* ensure_auth / ensure_cluster: cluster
    eks_cluster,  \* create_cluster: eks_cluster
    ca_pem,       \* create_cluster: ca_pem
    ca_file,      \* create_cluster: ca_file / ca_path and the file behind it
    result,       \* what the call returned
    calls,        \* the store writes and cloud queries the call has issued
    seen,         \* the entries whose existence check answered "absent"
    store0,       \* the store when the call began
    prev          \* the process's call before: for the same release? returned Ok?
                  \* its release, and whether it created its context

locals == <<context, auth, cluster, eks_cluster, ca_pem>>
vars == <<store, leaked, pc, release, context, auth, cluster, eks_cluster,
          ca_pem, ca_file, result, calls, seen, store0, prev>>

NoResult == [kind |-> "none", name |-> "", at |-> ""]
NoFile   == [state |-> "none", content |-> <<>>]

\* the temporary CA files on the file system
TmpFiles ==
    leaked + Cardinality({p \in Procs : ca_file[p].state \in {"file", "path", "leaked"}})

\* the temporary CA files whose removal failed
LeakedFiles ==
    leaked + Cardinality({p \in Procs : ca_file[p].state = "leaked"})

InitStoreEntry(n) ==
    [name |-> n, auth |-> "admin", cluster |-> "prod-eks", namespace |-> <<>>]

InitStores ==
    { [contexts |-> {InitStoreEntry(n) : n \in cs}, auths |-> as, clusters |-> cls] :
        cs  \in SUBSET {"prod-ctx", "ghost-ctx"},
        as  \in SUBSET {"prod-ctx", "na-ctx", "nc-ctx"},
        cls \in SUBSET {"prod-eks"} }

Init ==
    /\ store \in InitStores
    /\ leaked = 0
    /\ pc = [p \in Procs |-> "idle"]
    /\ release = [p \in Procs |-> [name |-> "", context |-> ""]]
    /\ context = [p \in Procs |-> NoContext]
    /\ auth = [p \in Procs |-> NoAuth]
    /\ cluster = [p \in Procs |-> NoCluster]
    /\ eks_cluster = [p \in Procs |-> NoEksCluster]
    /\ ca_pem = [p \in Procs |-> <<>>]
    /\ ca_file = [p \in Procs |-> NoFile]
    /\ result = [p \in Procs |-> NoResult]
    /\ calls = [p \in Procs |-> <<>>]
    /\ seen = [p \in Procs |-> {}]
    /\ store0 = [p \in Procs |-> store]
    /\ prev = [p \in Procs |-> [same |-> FALSE, ok |-> FALSE, release |-> "",
                                created |-> FALSE]]

\* the call returns: Ok, or the error `kind` of the operation `at` (for
\* NotFound, `name` is the name that was looked up)
Return(p, kind, name, at) ==
    /\ pc' = [pc EXCEPT ![p] = "done"]
    /\ result' = [result EXCEPT ![p] = [kind |-> kind, name |-> name, at |-> at]]

\* the call goes on
Goto(p, next) ==
    /\ pc' = [pc EXCEPT ![p] = next]
    /\ result' = [result EXCEPT ![p] = NoResult]

\* a bug of create_context: the result of ensure_auth is dropped
auth_failed_ignored(p, kind, name, at) == Goto(p, "ensure_cluster")

\* create_context, line 20: ensure_auth(&context, &config)?
auth_failed(p, kind, name, at) == Return(p, kind, name, at)

\* a bug of create_context: the result of ensure_cluster is dropped
cluster_failed_ignored(p, kind, name, at) == Goto(p, "create_context")

\* a bug of create_context: a failed cluster step is tried again
cluster_failed_retried(p, kind, name, at) == Goto(p, "get_eks_cluster")

\* create_context, line 21: ensure_cluster(&context, &config)?
cluster_failed(p, kind, name, at) == Return(p, kind, name, at)

Call(op, args, existed, ok, ca) ==
    [op |-> op, args |-> args, existed |-> existed, ok |-> ok, ca |-> ca]

Issue(p, c) == calls' = [calls EXCEPT ![p] = Append(calls[p], c)]

\* a bug of create_cluster: the path is kept or forgotten, nothing is removed
Remove_forgotten(p, removed) == UNCHANGED ca_file

\* the file behind a dropped NamedTempFile or TempPath is removed; a removal
\* that fails leaves it (Drop ignores the error)
Remove(p, removed) ==
    /\ ~removed => LeakedFiles < MaxLeaked
    /\ ca_file' = [ca_file EXCEPT ![p].state = IF removed THEN "removed" ELSE "leaked"]

(***************************************************************************)
(* prepare, lines 8-17.                                                    *)
(***************************************************************************)
prepare(p, r) ==
    /\ pc[p] \in {"idle", "done"}
    /\ release' = [release EXCEPT ![p] = r]
    /\ prev' = [prev EXCEPT ![p] = [same    |-> release[p] = r,
                                    ok      |-> result[p].kind = "Ok",
                                    release |-> release[p].name,
                                    created |-> result[p].kind = "Ok" /\ calls[p] # <<>>]]
    /\ store0' = [store0 EXCEPT ![p] = store]
    /\ calls' = [calls EXCEPT ![p] = <<>>]
    /\ auth' = [auth EXCEPT ![p] = NoAuth]
    /\ cluster' = [cluster EXCEPT ![p] = NoCluster]
    /\ eks_cluster' = [eks_cluster EXCEPT ![p] = NoEksCluster]
    /\ ca_pem' = [ca_pem EXCEPT ![p] = <<>>]
    /\ ca_file' = [ca_file EXCEPT ![p] = NoFile]
    /\ leaked' = IF ca_file[p].state = "leaked" THEN leaked + 1 ELSE leaked
    /\ UNCHANGED store
    /\ \E checked \in BOOLEAN :
        LET exists == context_exists(store, r.context)
            found  == find_context(Config, r)
        IN  \/ /\ ~checked                      \* kubeconfig::context_exists(..)?
               /\ Return(p, "StoreError", "", "context_exists")
               /\ context' = [context EXCEPT ![p] = NoContext]
               /\ seen' = [seen EXCEPT ![p] = {}]
            \/ /\ checked /\ prepare_skips(exists)
               /\ Return(p, "Ok", "", "")
               /\ context' = [context EXCEPT ![p] = NoContext]
               /\ seen' = [seen EXCEPT ![p] = IF exists THEN {} ELSE {"context"}]
            \/ /\ checked /\ ~prepare_skips(exists) /\ ~found.ok
               /\ Return(p, "NotFound", found.missing, "find_context")   \* config.find_context(..)?
               /\ context' = [context EXCEPT ![p] = NoContext]
               /\ seen' = [seen EXCEPT ![p] = IF exists THEN {} ELSE {"context"}]
            \/ /\ checked /\ ~prepare_skips(exists) /\ found.ok
               /\ Goto(p, "ensure_auth")
               /\ context' = [context EXCEPT ![p] = found.value]
               /\ seen' = [seen EXCEPT ![p] = IF exists THEN {} ELSE {"context"}]

(***************************************************************************)
(* ensure_auth, lines 31-41.                                               *)
(***************************************************************************)
ensure_auth(p) ==
    /\ pc[p] = "ensure_auth"
    /\ UNCHANGED <<store, leaked, release, context, eks_cluster, ca_pem, ca_file,
                   calls, store0, prev>>
    /\ \E checked \in BOOLEAN :
        LET exists == auth_exists(store, auth_entry_name(context[p]))
            fa     == ensure_auth_lookups(Config, context[p]).auth
            fc     == ensure_auth_lookups(Config, context[p]).cluster
            saw    == [seen EXCEPT ![p] = IF exists THEN @ ELSE @ \cup {"auth"}]
        IN  \/ /\ ~checked                      \* kubeconfig::auth_exists(..)?
               /\ auth_failed(p, "StoreError", "", "auth_exists")
               /\ UNCHANGED <<auth, cluster, seen>>
            \/ /\ checked /\ ensure_auth_skips(exists)
               /\ Goto(p, "ensure_cluster")
               /\ seen' = saw
               /\ UNCHANGED <<auth, cluster>>
            \/ /\ checked /\ ~ensure_auth_skips(exists) /\ ~fa.ok
               /\ auth_failed(p, "NotFound", fa.missing, "ensure_auth:find_auth")      \* config.find_auth(..)?
               /\ seen' = saw
               /\ UNCHANGED <<auth, cluster>>
            \/ /\ checked /\ ~ensure_auth_skips(exists) /\ fa.ok /\ ~fc.ok
               /\ auth_failed(p, "NotFound", fc.missing, "ensure_auth:find_cluster")   \* config.find_cluster(..)?
               /\ seen' = saw
               /\ UNCHANGED <<auth, cluster>>
            \/ /\ checked /\ ~ensure_auth_skips(exists) /\ fa.ok /\ fc.ok
               /\ Goto(p, "create_auth")
               /\ seen' = saw
               /\ auth' = [auth EXCEPT ![p] = fa.value]
               /\ cluster' = [cluster EXCEPT ![p] = fc.value]

(***************************************************************************)
(* create_auth, lines 43-77.                                               *)
(***************************************************************************)
create_auth(p) ==
    /\ pc[p] = "create_auth"
    /\ UNCHANGED <<leaked, release, locals, ca_file, seen, store0, prev>>
    /\ \E ok \in BOOLEAN :
        LET a == create_auth_args(context[p], auth[p], cluster[p])
        IN  /\ Issue(p, Call("create_auth", a, auth_exists(store, a.name), ok, <<>>))
            /\ IF ok
               THEN /\ store' = store_create_auth(store, a.name)
                    /\ Goto(p, "ensure_cluster")
               ELSE /\ UNCHANGED store
                    /\ auth_failed(p, "StoreError", "", "create_auth")

(***************************************************************************)
(* ensure_cluster, lines 79-89.                                            *)
(***************************************************************************)
ensure_cluster(p) ==
    /\ pc[p] = "ensure_cluster"
    /\ UNCHANGED <<store, leaked, release, context, eks_cluster, ca_pem, ca_file,
                   calls, store0, prev>>
    /\ \E checked \in BOOLEAN :
        LET exists == cluster_exists(store, cluster_entry_name(context[p]))
            fc     == find_cluster(Config, context[p])
            fa     == find_auth(Config, context[p])
            saw    == [seen EXCEPT ![p] = IF exists THEN @ ELSE @ \cup {"cluster"}]
        IN  \/ /\ ~checked                      \* kubeconfig::cluster_exists(..)?
               /\ cluster_failed(p, "StoreError", "", "cluster_exists")
               /\ UNCHANGED <<auth, cluster, seen>>
            \/ /\ checked /\ ensure_cluster_skips(exists)
               /\ Goto(p, "create_context")
               /\ seen' = saw
               /\ UNCHANGED <<auth, cluster>>
            \/ /\ checked /\ ~ensure_cluster_skips(exists) /\ ~fc.ok
               /\ cluster_failed(p, "NotFound", fc.missing, "ensure_cluster:find_cluster")      \* config.find_cluster(..)?
               /\ seen' = saw
               /\ UNCHANGED <<auth, cluster>>
            \/ /\ checked /\ ~ensure_cluster_skips(exists) /\ fc.ok /\ ~fa.ok
               /\ cluster_failed(p, "NotFound", fa.missing, "ensure_cluster:find_auth")         \* config.find_auth(..)?
               /\ seen' = saw
               /\ UNCHANGED <<auth, cluster>>
            \/ /\ checked /\ ~ensure_cluster_skips(exists) /\ fc.ok /\ fa.ok
               /\ Goto(p, "get_eks_cluster")
               /\ seen' = saw
               /\ auth' = [auth EXCEPT ![p] = fa.value]
               /\ cluster' = [cluster EXCEPT ![p] = fc.value]

(***************************************************************************)
(* create_cluster, lines 91-122, one step for each collaborator it calls.  *)
(***************************************************************************)
\* lines 98-99: aws::get_eks_cluster(..)? and base64::decode(..)?
create_cluster_query(p) ==
    /\ pc[p] = "get_eks_cluster"
    /\ UNCHANGED <<store, leaked, release, context, auth, cluster, ca_file,
                   seen, store0, prev>>
    /\ LET q == get_eks_cluster_args(cluster[p], auth[p])
       IN  \/ /\ Issue(p, Call("get_eks_cluster", q, FALSE, FALSE, <<>>))
              /\ cluster_failed(p, "CloudQueryError", "", "get_eks_cluster")
              /\ UNCHANGED <<eks_cluster, ca_pem>>
           \/ \E endpoint \in Endpoints, cert \in CloudCerts :
                LET decoded == base64_decode(cert)
                IN  /\ Issue(p, Call("get_eks_cluster", q, FALSE, TRUE, <<>>))
                    /\ eks_cluster' = [eks_cluster EXCEPT
                                         ![p] = [endpoint |-> endpoint, cert |-> cert]]
                    /\ IF decoded.ok
                       THEN /\ ca_pem' = [ca_pem EXCEPT ![p] = decoded.bytes]
                            /\ Goto(p, "ca_file")
                       ELSE /\ UNCHANGED ca_pem
                            /\ cluster_failed(p, "DecodeError", "", "base64_decode")

\* lines 100-103: NamedTempFile::new()?, ca_file.write(..)?, into_temp_path()
create_cluster_tempfile(p) ==
    /\ pc[p] = "ca_file"
    /\ UNCHANGED <<store, leaked, release, locals, calls, seen, store0, prev>>
    /\ \/ /\ cluster_failed(p, "ResourceError", "", "tempfile_new")   \* no file was created
          /\ UNCHANGED ca_file
       \/ \E removed \in BOOLEAN :                    \* the write failed
            /\ ~removed => LeakedFiles < MaxLeaked
            /\ ca_file' = [ca_file EXCEPT
                             ![p] = [state |-> IF removed THEN "removed" ELSE "leaked",
                                     content |-> <<>>]]
            /\ cluster_failed(p, "ResourceError", "", "write")
       \/ \E n \in 0..Len(ca_pem[p]) :               \* write returned Ok(n)
            /\ ca_file' = [ca_file EXCEPT
                             ![p] = [state |-> "path",
                                     content |-> file_write(ca_pem[p], n)]]
            /\ Goto(p, "create_cluster")

\* lines 108-117: kubeconfig::create_cluster(..)?
create_cluster_store(p) ==
    /\ pc[p] = "create_cluster"
    /\ UNCHANGED <<leaked, release, locals, seen, store0, prev>>
    /\ \E ok \in BOOLEAN :
        LET a == create_cluster_args(cluster[p], eks_cluster[p], ca_path_name(p))
        IN  /\ Issue(p, Call("create_cluster", a, cluster_exists(store, a.name), ok,
                             ca_file[p].content))
            /\ IF ok
               THEN /\ store' = store_create_cluster(store, a.name)
                    /\ UNCHANGED ca_file
                    /\ Goto(p, "close")
               ELSE /\ UNCHANGED store
                    /\ \E removed \in BOOLEAN : Remove(p, removed)
                    /\ cluster_failed(p, "StoreError", "", "create_cluster")

\* lines 118-119: ca_path.close()?
create_cluster_close(p) ==
    /\ pc[p] = "close"
    /\ UNCHANGED <<store, leaked, release, locals, calls, seen, store0, prev>>
    /\ \E removed \in BOOLEAN :
        /\ Remove(p, removed)
        /\ IF removed
           THEN Goto(p, "create_context")
           ELSE cluster_failed(p, "ResourceError", "", "close")

(***************************************************************************)
(* create_context, lines 22-28, after ensure_auth and ensure_cluster.      *)
(***************************************************************************)
create_context(p) ==
    /\ pc[p] = "create_context"
    /\ UNCHANGED <<leaked, release, locals, ca_file, seen, store0, prev>>
    /\ \E ok \in BOOLEAN :
        LET a == create_context_args(context[p])
        IN  /\ Issue(p, Call("create_context", a, context_exists(store, a.name), ok, <<>>))
            /\ IF ok
               THEN /\ store' = store_create_context(store, a)
                    /\ Return(p, "Ok", "", "")
               ELSE /\ UNCHANGED store
                    /\ Return(p, "StoreError", "", "create_context")

(***************************************************************************)
(* One process provisions (Spec); two processes share the store (SpecConc).*)
(***************************************************************************)
\* the steps of a call that is under way
Body(p) ==
    \/ ensure_auth(p)
    \/ create_auth(p)
    \/ ensure_cluster(p)
    \/ create_cluster_query(p)
    \/ create_cluster_tempfile(p)
    \/ create_cluster_store(p)
    \/ create_cluster_close(p)
    \/ create_context(p)

\* one process makes one prepare call after the other
Next ==
    \/ \E r \in Releases : prepare(1, r)
    \/ Body(1)

Spec == Init /\ [][Next]_vars

\* two processes, each a run of the program that makes one prepare call
NextConc ==
    \E p \in Procs :
        \/ pc[p] = "idle" /\ \E r \in Releases : prepare(p, r)
        \/ Body(p)

InitConc == Init /\ store.contexts = {} /\ store.auths = {}

SpecConc == InitConc /\ [][NextConc]_vars

(***************************************************************************)
(* Vocabulary of the properties.                                           *)
(***************************************************************************)
\* the operations of the calls issued so far, in order
Ops(p) == [i \in 1..Len(calls[p]) |-> calls[p][i].op]

\* the positions in calls[p] of the calls of operation op
Issued(p, op) == {i \in 1..Len(calls[p]) : calls[p][i].op = op}

Returned(p) == pc[p] = "done"

\* the configuration resolves the release's context, its auth and its cluster
Resolves(r) ==
    /\ find_context(Config, r).ok
    /\ find_auth(Config, find_context(Config, r).value).ok
    /\ find_cluster(Config, find_context(Config, r).value).ok

\* the operations outside the engine whose failure ends a call
ExternalOps ==
    {"context_exists", "auth_exists", "cluster_exists", "create_auth",
     "get_eks_cluster", "base64_decode", "tempfile_new", "write",
     "create_cluster", "close", "create_context"}

\* the operations of the cluster step (ensure_cluster and create_cluster)
ClusterStepOps ==
    {"cluster_exists", "ensure_cluster:find_cluster", "ensure_cluster:find_auth",
     "get_eks_cluster", "base64_decode", "tempfile_new", "write",
     "create_cluster", "close"}

(***************************************************************************)
(* C1: when a context named release.context is in the store as prepare     *)
(* begins, prepare issues no store write and no cloud query and does not   *)
(* consult the configuration.                                              *)
(***************************************************************************)
\* C1 as stated: ... and prepare returns success
C1_Original ==
    (Returned(1) /\ context_exists(store0[1], release[1].context))
        => (result[1].kind = "Ok" /\ calls[1] = <<>>)

\* C1: with the context in the store, prepare issues no call, leaves the store
\* as it was, resolves nothing from the configuration, and returns success
\* unless the existence check itself fails, whose error it returns
C1_ExistingContextNoWork ==
    (Returned(1) /\ context_exists(store0[1], release[1].context))
        => /\ calls[1] = <<>>
           /\ store = store0[1]
           /\ context[1] = NoContext
           /\ IF result[1].at = "context_exists"
              THEN result[1].kind = "StoreError"
              ELSE result[1] = [kind |-> "Ok", name |-> "", at |-> ""]

\* prepare succeeded on a context the store holds and the configuration lacks
C1_Witness ==
    /\ Returned(1)
    /\ context_exists(store0[1], release[1].context)
    /\ ~find_context(Config, release[1]).ok
    /\ result[1].kind = "Ok"

(***************************************************************************)
(* C2: the context entry prepare creates is bound to the auth entry named  *)
(* context.name, to the cluster entry context.cluster and to the namespace.*)
(***************************************************************************)
\* C2: every create_context call names as auth the name under which
\* ensure_auth checked or created the auth entry, and what it references
\* exists in the store
C2_ContextBoundToItsAuth ==
    \A i \in Issued(1, "create_context") :
        LET a == calls[1][i].args
        IN  /\ a.name = context[1].name
            /\ a.auth = auth_entry_name(context[1])
            /\ a.cluster = context[1].cluster
            /\ a.namespace = context[1].namespace
            /\ auth_exists(store, a.auth)
            /\ cluster_exists(store, a.cluster)

(***************************************************************************)
(* C3: create_context is not called before the auth entry context.name and *)
(* the cluster entry context.cluster are in the store; if ensuring either  *)
(* fails it is not called.                                                 *)
(***************************************************************************)
\* C3: at the call of kubeconfig::create_context both entries are in the
\* store, each found by its check or created by a successful call before; a
\* call that ended in the auth or the cluster step never issued it
C3_ContextCreatedLast ==
    /\ pc[1] = "create_context"
        => /\ auth_exists(store, auth_entry_name(context[1]))
           /\ cluster_exists(store, cluster_entry_name(context[1]))
           /\ \A i \in 1..Len(calls[1]) : calls[1][i].ok
    /\ \A i \in Issued(1, "create_context") :
        /\ i = Len(calls[1])
        /\ auth_exists(store, auth_entry_name(context[1]))
        /\ cluster_exists(store, cluster_entry_name(context[1]))
        /\ \A j \in 1..(i - 1) : calls[1][j].ok
    /\ (Returned(1) /\ result[1].at \notin {"", "create_context"})
        => Issued(1, "create_context") = {}

\* create_context is about to be called after this call created both entries
C3_Witness ==
    /\ pc[1] = "create_context"
    /\ Ops(1) = <<"create_auth", "get_eks_cluster", "create_cluster">>

(***************************************************************************)
(* C4: prepare called twice in a row for the same release, with no other   *)
(* writer: the second call leaves the store unchanged and queries no cloud.*)
(***************************************************************************)
\* C4 as stated: for every store and release, whatever the first call returned
C4_Original ==
    (pc[1] # "idle" /\ prev[1].same)
        => (store = store0[1] /\ Issued(1, "get_eks_cluster") = {})

\* C4: when the first of the two calls returned success, the second one
\* leaves the store unchanged and issues no cloud query (and no store write)
C4_SecondCallNoWork ==
    (pc[1] # "idle" /\ prev[1].same /\ prev[1].ok)
        => (store = store0[1] /\ calls[1] = <<>>)

\* the second call for prod returned, after a call that created its context
C4_Witness ==
    /\ Returned(1) /\ prev[1].same /\ prev[1].ok
    /\ release[1].name = "prod"
    /\ result[1].kind = "Ok"
    /\ \E e \in store.contexts : e.name = "prod-ctx" /\ e.namespace = <<"default">>

(***************************************************************************)
(* C5: from a store with the auth entry context.name but without the       *)
(* cluster entry context.cluster and without the context, a prepare whose  *)
(* external calls all succeed skips create_auth, calls create_cluster once *)
(* and then create_context once, and returns success.                      *)
(***************************************************************************)
\* the store the call of p began with: auth there, cluster and context not
C5_Resumes(p) ==
    LET ctx == find_context(Config, release[p]).value
    IN  /\ Resolves(release[p])
        /\ auth_exists(store0[p], ctx.name)
        /\ ~cluster_exists(store0[p], ctx.cluster)
        /\ ~context_exists(store0[p], release[p].context)

\* C5: such a call, none of whose external operations failed, returns Ok
\* having issued the cloud query, create_cluster and create_context, in
\* that order and once each, and no create_auth
C5_ResumesClusterAndContext ==
    (Returned(1) /\ C5_Resumes(1) /\ result[1].at \notin ExternalOps)
        => /\ result[1].kind = "Ok"
           /\ Ops(1) = <<"get_eks_cluster", "create_cluster", "create_context">>
           /\ \A i \in 1..Len(calls[1]) : calls[1][i].ok /\ ~calls[1][i].existed
           /\ store.auths = store0[1].auths

\* a call resumed after the auth entry and succeeded
C5_Witness ==
    /\ Returned(1) /\ C5_Resumes(1)
    /\ result[1].kind = "Ok"
    /\ Len(calls[1]) = 3

(***************************************************************************)
(* C6: create_auth succeeds and the cluster step then fails: prepare       *)
(* returns that error, the auth entry context.name stays in the store and  *)
(* no context entry is created.                                            *)
(***************************************************************************)
\* the error a failure of each operation is returned as
ErrorOf(at) ==
    CASE at \in {"context_exists", "auth_exists", "cluster_exists", "create_auth",
                 "create_cluster", "create_context"} -> "StoreError"
      [] at \in {"find_context", "ensure_auth:find_auth", "ensure_auth:find_cluster",
                 "ensure_cluster:find_cluster", "ensure_cluster:find_auth"} -> "NotFound"
      [] at = "get_eks_cluster" -> "CloudQueryError"
      [] at = "base64_decode" -> "DecodeError"
      [] at \in {"tempfile_new", "write", "close"} -> "ResourceError"
      [] OTHER -> "Ok"

\* the call of p created the auth entry and its cluster step failed
C6_AuthThenClusterFailure(p) ==
    /\ \E i \in Issued(p, "create_auth") : calls[p][i].ok
    /\ \/ result[p].at \in ClusterStepOps
       \/ \E i \in 1..Len(calls[p]) :
            calls[p][i].op \in {"get_eks_cluster", "create_cluster"} /\ ~calls[p][i].ok

\* C6: such a call returns the error of the operation that failed, its auth
\* entry is in the store, and it neither called create_context nor is there
\* a context entry
C6_AuthKeptNoContext ==
    (Returned(1) /\ C6_AuthThenClusterFailure(1))
        => /\ result[1].at \in ClusterStepOps
           /\ result[1].kind = ErrorOf(result[1].at)
           /\ result[1].kind # "Ok"
           /\ auth_exists(store, auth_entry_name(context[1]))
           /\ Issued(1, "create_context") = {}
           /\ ~context_exists(store, release[1].context)

\* create_auth succeeded and the cloud query failed
C6_Witness ==
    /\ Returned(1)
    /\ \E i \in Issued(1, "create_auth") : calls[1][i].ok
    /\ result[1].at = "get_eks_cluster"

(***************************************************************************)
(* C7: prepare for a release whose context the configuration does not know *)
(* fails with NotFound citing the missing name, with no store write and no *)
(* cloud query.                                                            *)
(***************************************************************************)
\* C7 as stated: whatever the store holds
C7_Original ==
    (Returned(1) /\ ~find_context(Config, release[1]).ok)
        => /\ result[1].kind = "NotFound"
           /\ result[1].name = release[1].context
           /\ calls[1] = <<>>

\* C7: for such a release prepare issues no call and leaves the store as it
\* was; it returns NotFound citing release.context when the store has no
\* context of that name, success when it has one, and the error of the
\* existence check when that check fails
C7_UnknownContext ==
    (Returned(1) /\ ~find_context(Config, release[1]).ok)
        => /\ calls[1] = <<>>
           /\ store = store0[1]
           /\ IF result[1].at = "context_exists"
              THEN result[1].kind = "StoreError"
              ELSE IF context_exists(store0[1], release[1].context)
              THEN result[1].kind = "Ok"
              ELSE result[1] = [kind |-> "NotFound", name |-> release[1].context,
                                at |-> "find_context"]

\* prepare returned NotFound for the release whose context is unknown
C7_Witness ==
    /\ Returned(1)
    /\ release[1].name = "ghost"
    /\ result[1].kind = "NotFound"
    /\ result[1].name = "ghost-ctx"

(***************************************************************************)
(* C8: from a store with none of the three entries a prepare whose         *)
(* external calls all succeed queries the cloud once, creates the cluster  *)
(* with the returned endpoint and the decoded CA, the auth entry with the  *)
(* exec arguments, and the context last, each once; all three exist after. *)
(***************************************************************************)
\* the store the call of p began with holds none of the three entries
C8_Fresh(p) ==
    LET ctx == find_context(Config, release[p]).value
    IN  /\ Resolves(release[p])
        /\ ~auth_exists(store0[p], ctx.name)
        /\ ~cluster_exists(store0[p], ctx.cluster)
        /\ ~context_exists(store0[p], release[p].context)

Contains(seq, x) == \E i \in 1..Len(seq) : seq[i] = x

\* the calls the claim lists, with their arguments, apart from the CA data
C8_Calls(p) ==
    LET ctx == find_context(Config, release[p]).value
        a   == find_auth(Config, ctx).value
        cl  == find_cluster(Config, ctx).value
    IN  /\ result[p].kind = "Ok"
        /\ Len(calls[p]) = 4
        /\ \A op \in {"get_eks_cluster", "create_cluster", "create_auth",
                      "create_context"} : Cardinality(Issued(p, op)) = 1
        /\ calls[p][4].op = "create_context"
        /\ \A i \in 1..4 :
            LET c == calls[p][i]
            IN  /\ c.op = "get_eks_cluster" =>
                     c.args = [profile |-> a.name, region |-> cl.config.region,
                               name |-> cl.config.name]
                /\ c.op = "create_cluster" =>
                     /\ c.args.name = ctx.cluster
                     /\ \E k \in 1..(Len(c.args.args) - 1) :
                          /\ c.args.args[k] = "--server"
                          /\ c.args.args[k + 1] = eks_cluster[p].endpoint
                     /\ Contains(c.args.args, "--certificate-authority")
                /\ c.op = "create_auth" =>
                     /\ c.args.name = ctx.name
                     /\ Contains(c.args.args, cl.config.region)
                     /\ Contains(c.args.args, cl.config.name)
                     /\ Contains(c.args.args, "AWS_PROFILE=" \o a.name)
                /\ c.op = "create_context" => c.args.name = ctx.name
        /\ auth_exists(store, ctx.name)
        /\ cluster_exists(store, ctx.cluster)
        /\ context_exists(store, ctx.name)

\* the certificate authority file handed to create_cluster holds the decoded CA
C8_DecodedCa(p) ==
    \A i \in Issued(p, "create_cluster") :
        calls[p][i].ca = base64_decode(eks_cluster[p].cert).bytes

\* C8: a successful provisioning from a fresh store issues the four calls as
\* listed and creates the cluster with the decoded CA
C8_FreshProvisioning ==
    (Returned(1) /\ C8_Fresh(1) /\ result[1].at \notin ExternalOps)
        => (C8_Calls(1) /\ C8_DecodedCa(1))

\* what of C8 does hold: the four calls and their arguments; the CA file
\* holds a prefix of the decoded CA
C8_CallsWithCaPrefix ==
    (Returned(1) /\ C8_Fresh(1) /\ result[1].at \notin ExternalOps)
        => /\ C8_Calls(1)
           /\ \A i \in Issued(1, "create_cluster") :
                \E n \in 0..Len(ca_pem[1]) :
                    calls[1][i].ca = SubSeq(base64_decode(eks_cluster[1].cert).bytes, 1, n)

(***************************************************************************)
(* C9: on every exit path of cluster materialization the temporary CA file *)
(* no longer exists when create_cluster returns; no temporary CA file      *)
(* exists after prepare returns.                                           *)
(***************************************************************************)
\* create_cluster of the call of p has returned, or was never entered
AfterCreateCluster(p) == pc[p] \in {"idle", "create_context", "done"}

\* C9 as stated
C9_Original == AfterCreateCluster(1) => TmpFiles = 0

\* C9: once create_cluster has returned, the file it created is no longer
\* held: its removal was attempted, by drop on the error paths and by
\* close() on the success path, and the file is gone unless that removal
\* failed; a removal that fails in close() is returned as an error after the
\* cluster entry was written, so a call that returns Ok leaves none of its own
C9_TempFileReleased ==
    /\ AfterCreateCluster(1)
        => /\ ca_file[1].state \in {"none", "removed", "leaked"}
           /\ TmpFiles = LeakedFiles
    /\ pc[1] = "create_context" => ca_file[1].state \in {"none", "removed"}
    /\ (Returned(1) /\ result[1].kind = "Ok") => ca_file[1].state \in {"none", "removed"}
    /\ (Returned(1) /\ result[1].at = "close")
        => /\ ca_file[1].state = "leaked"
           /\ result[1].kind = "ResourceError"
           /\ cluster_exists(store, cluster_entry_name(context[1]))
    /\ (Returned(1) /\ ca_file[1].state = "leaked")
        => result[1].at \in {"write", "create_cluster", "close"}

\* a call that created the cluster returned Ok and its file has been removed
C9_Witness ==
    /\ Returned(1)
    /\ result[1].kind = "Ok"
    /\ Issued(1, "create_cluster") # {}
    /\ ca_file[1].state = "removed"
    /\ TmpFiles = 0

(***************************************************************************)
(* C10: two prepare processes on one store: check and create are not       *)
(* atomic, both may find an entry absent and both issue its create.        *)
(***************************************************************************)
CreateOps == {"create_auth", "create_cluster", "create_context"}

KindOf(op) ==
    CASE op = "create_auth" -> "auth"
      [] op = "create_cluster" -> "cluster"
      [] op = "create_context" -> "context"
      [] OTHER -> ""

\* C10: a process issues a create only after its own check of that entry
\* answered "absent"; when the entry exists at the create, the other process
\* created it after that check
C10_CreateAfterOwnCheck ==
    \A p \in Procs : \A i \in 1..Len(calls[p]) :
        LET c == calls[p][i]
        IN  c.op \in CreateOps =>
              /\ KindOf(c.op) \in seen[p]
              /\ c.existed =>
                   \E q \in Procs \ {p} : \E j \in 1..Len(calls[q]) :
                       /\ calls[q][j].op = c.op
                       /\ calls[q][j].args.name = c.args.name
                       /\ calls[q][j].ok

\* one process issued all three creates for entries that the other process,
\* having found them absent too, had created in between
C10_Witness ==
    \E p \in Procs :
        /\ Ops(p) = <<"create_auth", "get_eks_cluster", "create_cluster", "create_context">>
        /\ \A i \in {1, 3, 4} : calls[p][i].existed
        /\ \A q \in Procs \ {p} : seen[q] = {"context", "auth", "cluster"}

(***************************************************************************)
(* C12: cluster entries are keyed by cluster name and shared, auth entries *)
(* are keyed by context name: of two releases whose contexts reference the *)
(* same cluster and auth profile, prepared one after the other, the second *)
(* prepare queries no cloud and creates no cluster, but creates its own    *)
(* auth entry and its own context.                                         *)
(***************************************************************************)
\* the call of p is for a release that shares cluster and auth profile with
\* the release of the successful call before, under another context, and began
\* with neither its own auth entry nor its own context in the store
C12_SecondOfSiblings(p) ==
    LET ctx == find_context(Config, release[p]).value
    IN  /\ prev[p].ok
        /\ Resolves(release[p])
        /\ \E r \in Releases :
            /\ r.name = prev[p].release
            /\ Resolves(r)
            /\ r.context # release[p].context
            /\ find_context(Config, r).value.cluster = ctx.cluster
            /\ find_context(Config, r).value.auth = ctx.auth
        /\ ~auth_exists(store0[p], ctx.name)
        /\ ~context_exists(store0[p], release[p].context)

\* what the claim says of the second prepare
C12_OnlyAuthAndContext(p) ==
    LET ctx == find_context(Config, release[p]).value
    IN  /\ result[p].kind = "Ok"
        /\ Ops(p) = <<"create_auth", "create_context">>
        /\ calls[p][1].args.name = ctx.name
        /\ calls[p][2].args.name = ctx.name
        /\ store.clusters = store0[p].clusters
        /\ auth_exists(store, ctx.name)
        /\ context_exists(store, ctx.name)

C13_FailureEndsCall ==
    /\ \A i \in 1..Len(calls[1]) :
        ~calls[1][i].ok =>
            /\ i = Len(calls[1])
            /\ Returned(1)
            /\ result[1].at = calls[1][i].op
    /\ result[1].at # "" =>
            /\ Returned(1)
            /\ result[1].kind = ErrorOf(result[1].at)
            /\ result[1].kind # "Ok"
    /\ result[1].kind \notin {"none", "Ok"} => (Returned(1) /\ result[1].at # "")

\* after an error nothing is written and nothing is queried until the caller
\* calls prepare again
C13_NothingAfterError ==
    result[1].kind \notin {"none", "Ok"} =>
        /\ store' = store
        /\ calls'[1] \in {calls[1], <<>>}
        /\ pc'[1] \in {"done", "ensure_auth"}

\* C13: a failure of any operation ends the prepare call with that
\* operation's error, and no store write or cloud query follows it
C13_EveryErrorFatal == []C13_FailureEndsCall /\ [][C13_NothingAfterError]_vars

\* the store refused create_cluster after the auth entry was written and the
\* cloud was queried
C13_Witness ==
    /\ Returned(1)
    /\ Ops(1) = <<"create_auth", "get_eks_cluster", "create_cluster">>
    /\ ~calls[1][3].ok
    /\ result[1].kind = "StoreError"

(***************************************************************************)
(* C14: no retries: one prepare call invokes each of create_auth,          *)
(* create_cluster, create_context and the cloud query at most once,        *)
(* whatever their outcomes.                                                *)
(***************************************************************************)
\* C14: no operation appears twice among the calls of one prepare
C14_NoRetries ==
    \A op \in CreateOps \cup {"get_eks_cluster"} :
        Cardinality(Issued(1, op)) <= 1

\* a prepare that issued all four calls, the last of which failed
C14_Witness ==
    /\ Returned(1)
    /\ Ops(1) = <<"create_auth", "get_eks_cluster", "create_cluster", "create_context">>
    /\ ~calls[1][4].ok
    /\ result[1].at = "create_context"

(***************************************************************************)
(* C15: auth is ensured before cluster: the cluster existence check, the   *)
(* cloud query and create_cluster happen only once the auth entry keyed by *)
(* context.name is in the store; when the auth existence check or          *)
(* create_auth fails, the call makes no cloud query and no create_cluster. *)
(***************************************************************************)
\* the positions of a prepare call from the cluster existence check on
C15_ClusterStep == {"ensure_cluster", "get_eks_cluster", "ca_file", "create_cluster", "close"}

\* C15: in the cluster step, and after any cloud query or create_cluster of
\* the call, the auth entry context.name is in the store; a call that ended in
\* auth_exists or create_auth issued neither
C15_AuthBeforeCluster ==
    /\ pc[1] \in C15_ClusterStep => auth_exists(store, context[1].name)
    /\ (Issued(1, "get_eks_cluster") \cup Issued(1, "create_cluster")) # {}
            => auth_exists(store, context[1].name)
    /\ (Returned(1) /\ result[1].at \in {"auth_exists", "create_auth"})
            => /\ Issued(1, "get_eks_cluster") = {}
               /\ Issued(1, "create_cluster") = {}
               /\ "cluster" \notin seen[1]

\* the cloud is about to be queried after this call created the auth entry
C15_Witness ==
    /\ pc[1] = "get_eks_cluster"
    /\ Ops(1) = <<"create_auth">>
    /\ calls[1][1].ok
    /\ ~auth_exists(store0[1], context[1].name)

(***************************************************************************)
(* C16: a prepare call that fails with a configuration lookup error has    *)
(* made no store write and no cloud query, whatever the store held:        *)
(* ensure_auth resolves both the auth and the cluster before its only      *)
(* write, so the lookups of ensure_cluster cannot fail after create_auth.  *)
(***************************************************************************)
\* C16: a call that returned NotFound issued no call and left the store as
\* it found it
C16_NotFoundWritesNothing ==
    (Returned(1) /\ result[1].kind = "NotFound")
        => /\ calls[1] = <<>>
           /\ store = store0[1]
           /\ result[1].at \in {"find_context", "ensure_auth:find_auth",
                                "ensure_auth:find_cluster",
                                "ensure_cluster:find_cluster",
                                "ensure_cluster:find_auth"}

\* a lookup of ensure_cluster failed: ensure_auth found its entry in the
\* store and resolved nothing
C16_Witness ==
    /\ Returned(1)
    /\ result[1].kind = "NotFound"
    /\ result[1].at = "ensure_cluster:find_auth"
    /\ auth_exists(store0[1], context[1].name)
    /\ ~cluster_exists(store0[1], context[1].cluster)

(***************************************************************************)
(* C17: whenever prepare returns success a context entry named             *)
(* release.context is in the store; when this call created it, the auth    *)
(* entry keyed by the context's name and the cluster entry keyed by        *)
(* context.cluster are in the store as well.                               *)
(***************************************************************************)
\* C17: the postcondition of a successful prepare
C17_SuccessPostcondition ==
    (Returned(1) /\ result[1].kind = "Ok")
        => /\ context_exists(store, release[1].context)
           /\ Issued(1, "create_context") # {}
                => /\ context[1].name = release[1].context
                   /\ auth_exists(store, context[1].name)
                   /\ cluster_exists(store, context[1].cluster)

\* a prepare that began with none of the three entries returned success
C17_Witness ==
    /\ Returned(1) /\ result[1].kind = "Ok"
    /\ Len(calls[1]) = 4
    /\ Issued(1, "create_context") = {4}
    /\ store0[1].auths = {} /\ store0[1].clusters = {}

(***************************************************************************)
(* C18: the cloud is queried only when the checks of the call found both   *)
(* the context and the cluster entry context.cluster absent; from a store  *)
(* with the cluster entry and without the auth entry and the context,      *)
(* prepare creates only the auth entry and the context and queries no      *)
(* cloud.                                                                  *)
(***************************************************************************)
\* the call of p began with its cluster entry in the store and without its
\* auth entry and its context
C18_ClusterOnly(p) ==
    LET ctx == find_context(Config, release[p]).value
    IN  /\ Resolves(release[p])
        /\ cluster_exists(store0[p], ctx.cluster)
        /\ ~auth_exists(store0[p], ctx.name)
        /\ ~context_exists(store0[p], release[p].context)

\* C18: a cloud query follows "absent" answers for the context and for the
\* cluster, both absent from the store indeed; with the cluster present and
\* no external failure the calls are create_auth and create_context
C18_QueryOnlyWhenClusterAbsent ==
    /\ Issued(1, "get_eks_cluster") # {}
            => /\ {"context", "cluster"} \subseteq seen[1]
               /\ ~context_exists(store0[1], release[1].context)
               /\ ~cluster_exists(store0[1], context[1].cluster)
    /\ (Returned(1) /\ C18_ClusterOnly(1))
            => /\ Issued(1, "get_eks_cluster") = {}
               /\ Issued(1, "create_cluster") = {}
               /\ result[1].at \notin ExternalOps
                    => /\ result[1].kind = "Ok"
                       /\ Ops(1) = <<"create_auth", "create_context">>
                       /\ store.clusters = store0[1].clusters

\* the first prepare on a store holding only the cluster entry succeeded
C18_Witness ==
    /\ Returned(1) /\ C18_ClusterOnly(1)
    /\ prev[1].release = ""
    /\ store0[1].auths = {} /\ store0[1].contexts = {}
    /\ result[1].kind = "Ok"
    /\ Ops(1) = <<"create_auth", "create_context">>

(***************************************************************************)
(* C19: over any sequence of prepare calls of one process the set of store *)
(* entries only grows (no entry is deleted or overwritten), and a create   *)
(* is issued only for a name whose existence check in the same call        *)
(* answered "absent", so never for an entry that exists.                   *)
(***************************************************************************)
\* every step keeps every entry of the store as it is
C19_StoreGrows ==
    /\ store.contexts \subseteq store'.contexts
    /\ store.auths \subseteq store'.auths
    /\ store.clusters \subseteq store'.clusters

\* every create of the call followed an "absent" answer for its kind of entry
\* and found no entry of its name in the store
C19_CreatesOnlyAbsent ==
    \A i \in 1..Len(calls[1]) :
        calls[1][i].op \in CreateOps
            => /\ KindOf(calls[1][i].op) \in seen[1]
               /\ ~calls[1][i].existed

\* C19: the store only grows and creates are issued for absent entries only
C19_StoreOnlyGrows == [][C19_StoreGrows]_vars /\ []C19_CreatesOnlyAbsent

\* after a failed call and successful ones the store holds the contexts of
\* two releases next to the entries it began with
C19_Witness ==
    /\ Returned(1) /\ result[1].kind = "Ok"
    /\ release[1].name = "staging"
    /\ calls[1] # <<>>
    /\ ~prev[1].ok
    /\ InitStoreEntry("ghost-ctx") \in store.contexts
    /\ context_exists(store, "prod-ctx")
    /\ context_exists(store, "stg-ctx")
    /\ {"na-ctx", "prod-ctx", "stg-ctx"} \subseteq store.auths

====
